---- MODULE Spec2Model ----
(***************************************************************************)
(* Third-person character controller and orbit camera of src/src/App.jsx.  *)
(*                                                                         *)
(* Fixed-point units (the code uses IEEE doubles):                         *)
(*   angles      1 = 0.0001 rad          distances (camera)  1 = 0.001     *)
(*   directions  1 = 0.001               velocities          1 = 0.001 /s  *)
(*   ray hits    1 = 0.01                elapsed time delta  1 = 0.001 s   *)
(***************************************************************************)
EXTENDS Integers, Sequences, FiniteSets, TLC

VARIABLES
    yaw,                \* yawRef.current
    pitch,              \* pitchRef.current
    distance,           \* distanceRef.current
    pointerLockElement, \* document.pointerLockElement: "canvas" or "null"
    lockQueue,          \* pointer-lock requests the browser has not yet resolved
    lastPress,          \* log of the last mouse press and what its handlers requested
    keys,               \* window.keys: own properties -> BOOLEAN
    keyLog,             \* per key identifier, its most recent event
    keyCase,            \* per key identifier, the key name of that event as typed
    isGrounded,         \* Player's React state as seen by the rendered closure
    groundedUpdate,     \* setIsGrounded(...) queued until the next render
    velocity,           \* velocity.current (mirror of the physics body)
    cmd,                \* last api.velocity.set(vx, vy, vz)
    raysRef,            \* raysRef.current: debug lines of the last probe
    sceneLines,         \* debug lines that are children of the scene
    last,               \* log of the last per-frame update (what it read and did)
    snap,               \* yaw, pitch and distance at the last frame
    burst,              \* mouse-move and wheel events since the last frame
    mounted,            \* the components are attached (React has not unmounted them)
    listeners,          \* event listeners, subscriptions and frame callbacks in place
    target,             \* the target prop of CameraController
    camPos,             \* camera.position
    camLook,            \* the direction the camera faces (set by camera.lookAt)
    camLast             \* log of the camera updates

vars == <<yaw, pitch, distance, pointerLockElement, lockQueue, lastPress, keys, keyLog, keyCase,
          isGrounded,
          groundedUpdate, velocity, cmd, raysRef, sceneLines, last,
          snap, burst, mounted, listeners, target, camPos, camLook, camLast>>

cameraVars == <<yaw, pitch, distance>>
lockVars == <<pointerLockElement, lockQueue, lastPress>>
keyVars == <<keys, keyLog, keyCase>>
lifeVars == <<mounted, listeners>>
orbitVars == <<target, camPos, camLook, camLast>>
playerVars == <<isGrounded, groundedUpdate, velocity, cmd, raysRef, sceneLines,
                last>>

(***************************************************************************)
(* Bounds of the model                                                     *)
(***************************************************************************)
MaxBurst == 2        \* mouse-move and wheel events between two frames
MaxYawSteps == 1     \* |yaw - PI| stays within MaxYawSteps mouse strokes
MaxTargetChanges == 1   \* changes of the camera's target prop

(***************************************************************************)
(* CAMERA_CONSTANTS                                                        *)
(***************************************************************************)
PI == 31416
INITIAL_DISTANCE == 5000
MIN_DISTANCE == 2000
MAX_DISTANCE == 50000
ZOOM_SPEED == 5                  \* 0.5, in tenths
MOUSE_SENSITIVITY == 20          \* 0.002 rad per pixel
MAX_PITCH == (PI \div 2) - 1000  \* Math.PI / 2 - 0.1
MIN_PITCH == 1000
LERP_FACTOR == 1                 \* 0.1, in tenths
INITIAL_PITCH == 8000
INITIAL_YAW == PI

Max(a, b) == IF a >= b THEN a ELSE b
Min(a, b) == IF a <= b THEN a ELSE b
Abs(a) == IF a < 0 THEN -a ELSE a

(***************************************************************************)
(* Inputs the host environment delivers                                    *)
(***************************************************************************)
MouseMoves == {[dx |-> 200, dy |-> -5000], [dx |-> -200, dy |-> 200]}
WheelDeltas == {-20000, 8000}
ZoomDeltas == {-20000, -100, 100, 20000}
Buttons == {0, 1, 2}

\* String.prototype.toLowerCase on the key names in use
ToLowerCase(k) ==
    CASE k = "W" -> "w"
      [] k = "S" -> "s"
      [] k = "A" -> "a"
      [] k = "D" -> "d"
      [] OTHER -> k

Record(ev) ==
    burst' = [len |-> burst.len + 1,
              kind |-> IF burst.len = 0 \/ burst.kind = ev.kind
                       THEN ev.kind ELSE "mixed",
              events |-> Append(burst.events, ev)]

(***************************************************************************)
(* Listeners, subscriptions and frame callbacks                            *)
(***************************************************************************)
\* CameraController's effect: the four addEventListener calls
CameraListeners ==
    {"canvas.mousedown", "document.mousedown", "document.mousemove",
     "canvas.wheel"}

\* Player's effect: api.velocity.subscribe and api.position.subscribe
PlayerSubscriptions == {"api.velocity", "api.position"}

\* useFrame callbacks of CameraController and Player
FrameCallbacks == {"useFrame.CameraController", "useFrame.Player"}

\* window.addEventListener at module level
KeyListeners == {"window.keydown", "window.keyup"}

\* what the effects' cleanup functions and the unmounted useFrame hooks
\* take away
Removed == CameraListeners \cup PlayerSubscriptions \cup FrameCallbacks

Listening(l) == l \in listeners

(***************************************************************************)
(* CameraController: pointer lock                                          *)
(***************************************************************************)
\* canvas.requestPointerLock() / document.exitPointerLock(): asynchronous
Request(q, r) == Append(q, r)

\* onMouseDown (canvas listener)
onMouseDown(q, button) ==
    IF button = 0 \/ button = 1 THEN Request(q, "lock") ELSE q

\* a toggle that never looks at the current capture
onMiddleMouseClickAlwaysLock(q, button, locked) ==
    IF button # 1 THEN q ELSE Request(q, "lock")

\* onMiddleMouseClick (document listener)
onMiddleMouseClick(q, button, locked) ==
    IF button # 1 THEN q
    ELSE IF locked = "canvas" THEN Request(q, "exit") ELSE Request(q, "lock")

\* A press on the canvas: the canvas listener runs, then the event bubbles
\* to the document listener.  A press elsewhere reaches the document only.
MouseDown(button, onCanvas) ==
    /\ Len(lockQueue) = 0     \* earlier requests are resolved before a press
    /\ LET q == IF onCanvas /\ Listening("canvas.mousedown")
                 THEN onMouseDown(lockQueue, button) ELSE lockQueue
           r == IF Listening("document.mousedown")
                 THEN onMiddleMouseClick(q, button, pointerLockElement)
                 ELSE q
       IN /\ lockQueue' = r
          /\ lastPress' = [any |-> TRUE, button |-> button,
                           onCanvas |-> onCanvas,
                           locked |-> pointerLockElement, requests |-> r]
    /\ UNCHANGED <<pointerLockElement, cameraVars, keyVars, playerVars, snap, burst, lifeVars, orbitVars>>

\* The browser resolves the oldest request; a lock request may be refused.
PointerLockResolve ==
    /\ Len(lockQueue) > 0
    /\ lockQueue' = Tail(lockQueue)
    /\ \/ /\ Head(lockQueue) = "lock"
          /\ pointerLockElement' \in {"canvas", pointerLockElement}
       \/ /\ Head(lockQueue) = "exit"
          /\ pointerLockElement' = "null"
    /\ UNCHANGED <<lastPress, cameraVars, keyVars, playerVars, snap, burst, lifeVars, orbitVars>>

\* The user leaves capture (Escape)
PointerLockEscape ==
    /\ pointerLockElement = "canvas"
    /\ pointerLockElement' = "null"
    /\ UNCHANGED <<lockQueue, lastPress, cameraVars, keyVars, playerVars, snap, burst, lifeVars, orbitVars>>

(***************************************************************************)
(* CameraController: mouse look and zoom                                   *)
(***************************************************************************)
\* a clamp that forgets the upper limit
ClampPitchBelowOnly(p) == Max(MIN_PITCH, p)

\* Math.max(MIN_PITCH, Math.min(MAX_PITCH, pitchRef.current))
ClampPitch(p) == Max(MIN_PITCH, Min(MAX_PITCH, p))

\* Math.min(MAX_DISTANCE, Math.max(MIN_DISTANCE, ...))
ClampDistance(d) == Min(MAX_DISTANCE, Max(MIN_DISTANCE, d))

\* a handler that forgets to test the pointer lock
onMouseMoveAlways(y, p, locked, e) ==
    <<y - e.dx * MOUSE_SENSITIVITY, ClampPitch(p - e.dy * MOUSE_SENSITIVITY)>>

\* onMouseMove: the new <<yaw, pitch>>
onMouseMove(y, p, locked, e) ==
    IF locked # "canvas" THEN <<y, p>>
    ELSE <<y - e.dx * MOUSE_SENSITIVITY,
           ClampPitch(p - e.dy * MOUSE_SENSITIVITY)>>

\* a handler that forgets ZOOM_SPEED
onWheelUnscaled(d, deltaY) == ClampDistance(d + deltaY * 10)

\* a handler that writes the latest value instead of accumulating
onWheelLatest(d, deltaY) ==
    ClampDistance(INITIAL_DISTANCE + (deltaY * 10 * ZOOM_SPEED) \div 10)

\* onWheel: the new distance (deltaY * 0.01 * ZOOM_SPEED, in thousandths)
onWheel(d, deltaY) ==
    ClampDistance(d + (deltaY * 10 * ZOOM_SPEED) \div 10)

MouseMove(e) ==
    /\ burst.len < MaxBurst
    /\ LET r == IF Listening("document.mousemove")
                 THEN onMouseMove(yaw, pitch, pointerLockElement, e)
                 ELSE <<yaw, pitch>> IN
         /\ Abs(r[1] - INITIAL_YAW) <= MaxYawSteps * 200 * MOUSE_SENSITIVITY
         /\ yaw' = r[1]
         /\ pitch' = r[2]
    /\ Record([kind |-> "mousemove", dx |-> e.dx, dy |-> e.dy,
               locked |-> pointerLockElement])
    /\ UNCHANGED <<distance, lockVars, keyVars, playerVars, snap, lifeVars, orbitVars>>

Wheel(deltaY) ==
    /\ burst.len < MaxBurst
    /\ distance' = IF Listening("canvas.wheel") THEN onWheel(distance, deltaY)
                   ELSE distance
    /\ Record([kind |-> "wheel", deltaY |-> deltaY])
    /\ UNCHANGED <<yaw, pitch, lockVars, keyVars, playerVars, snap, lifeVars, orbitVars>>

(***************************************************************************)
(* Keyboard input: window.keys                                             *)
(***************************************************************************)
\* window.keys[id] = value
KeyWrite(table, id, value) ==
    [k \in (DOMAIN table) \cup {id} |-> IF k = id THEN value ELSE table[k]]

onKeyDown(table, key) == KeyWrite(table, ToLowerCase(key), TRUE)

\* a key-up listener that forgets toLowerCase()
onKeyUpCaseSensitive(table, key) == KeyWrite(table, key, FALSE)

onKeyUp(table, key) == KeyWrite(table, ToLowerCase(key), FALSE)

\* window.keys?.[id] as a condition
Held(table, id) == id \in DOMAIN table /\ table[id]

\* the identifier of a key, whatever the letter case of its name
KeyIdentity(key) ==
    IF key \in {"w", "W"} THEN "w"
    ELSE IF key \in {"s", "S"} THEN "s"
    ELSE IF key \in {"a", "A"} THEN "a"
    ELSE IF key \in {"d", "D"} THEN "d"
    ELSE key

Log(key, what) ==
    keyLog' = [k \in (DOMAIN keyLog) \cup {KeyIdentity(key)} |->
                 IF k = KeyIdentity(key) THEN what ELSE keyLog[k]]

\* the name as typed, and whether this event releases a key that was
\* pressed under a name of the other letter case
LogCase(key, what) ==
    LET id == KeyIdentity(key) IN
    keyCase' = [k \in (DOMAIN keyCase) \cup {id} |->
                  IF k = id
                  THEN [name |-> key,
                        mixed |-> /\ what = "up"
                                  /\ id \in DOMAIN keyLog
                                  /\ keyLog[id] = "down"
                                  /\ keyCase[id].name # key]
                  ELSE keyCase[k]]

KeyDown(key) ==
    /\ keys' = IF Listening("window.keydown") THEN onKeyDown(keys, key) ELSE keys
    /\ Log(key, "down")
    /\ LogCase(key, "down")
    /\ UNCHANGED <<cameraVars, lockVars, playerVars, snap, burst, lifeVars, orbitVars>>

KeyUp(key) ==
    /\ keys' = IF Listening("window.keyup") THEN onKeyUp(keys, key) ELSE keys
    /\ Log(key, "up")
    /\ LogCase(key, "up")
    /\ UNCHANGED <<cameraVars, lockVars, playerVars, snap, burst, lifeVars, orbitVars>>

(***************************************************************************)
(* three.js vector arithmetic used by Player's frame callback              *)
(***************************************************************************)
Vec(x, y, z) == [x |-> x, y |-> y, z |-> z, nan |-> FALSE]

Zero == Vec(0, 0, 0)

\* integer division rounding toward zero
DivT(a, b) == IF a >= 0 THEN a \div b ELSE -((-a) \div b)

RECURSIVE SqrtIn(_, _, _)
SqrtIn(n, lo, hi) ==
    IF lo >= hi THEN lo
    ELSE LET mid == (lo + hi + 1) \div 2 IN
         IF mid * mid <= n THEN SqrtIn(n, mid, hi) ELSE SqrtIn(n, lo, mid - 1)

ISqrt(n) == SqrtIn(n, 0, 4000)

\* Vector3.length()
Length(v) == ISqrt(v.x * v.x + v.y * v.y + v.z * v.z)

Add(a, b) == [x |-> a.x + b.x, y |-> a.y + b.y, z |-> a.z + b.z,
              nan |-> a.nan \/ b.nan]

Sub(a, b) == [x |-> a.x - b.x, y |-> a.y - b.y, z |-> a.z - b.z,
              nan |-> a.nan \/ b.nan]

\* Vector3.crossVectors(a, b), b given in whole units
Cross(a, b) == [x |-> a.y * b.z - a.z * b.y,
                y |-> a.z * b.x - a.x * b.z,
                z |-> a.x * b.y - a.y * b.x,
                nan |-> a.nan]

\* A normalisation without the zero-length guard: 0 / 0 is NaN
NormalizeUnguarded(v) ==
    LET len == Length(v) IN
    IF len = 0 THEN [x |-> 0, y |-> 0, z |-> 0, nan |-> TRUE]
    ELSE [x |-> DivT(v.x * 1000, len), y |-> DivT(v.y * 1000, len),
          z |-> DivT(v.z * 1000, len), nan |-> v.nan]

\* Vector3.normalize(): divideScalar(length() || 1)
Normalize(v) ==
    LET len == Length(v)
        d == IF len = 0 THEN 1000 ELSE len
    IN [x |-> DivT(v.x * 1000, d), y |-> DivT(v.y * 1000, d),
        z |-> DivT(v.z * 1000, d), nan |-> v.nan]

\* THREE.MathUtils.lerp(x, y, t) = (1 - t) * x + t * y, t in thousandths
Lerp(x, y, t) == DivT((1000 - t) * x + t * y, 1000)

(***************************************************************************)
(* Player: ground probe                                                    *)
(***************************************************************************)
Center == <<0, 0>>
Corners == {<<5, 5>>, <<-5, 5>>, <<5, -5>>, <<-5, -5>>}
SamplePoints == {Center} \cup Corners     \* footprint points, in tenths

\* the offsets array of checkGrounded, in the order the rays are cast
offsets == << <<5, 5>>, <<-5, 5>>, <<5, -5>>, <<-5, -5>> >>

GROUND_THRESHOLD == 55

\* raycaster.intersectObjects(scene.children, true) for the ray that starts
\* at origin + offset: the distances of its intersections
Intersects(hits, offset) == hits[offset]

\* a threshold test that leaves out the boundary
QualifiesStrict(intersects) == \E h \in intersects : h < 55

\* intersects.some((hit) => hit.distance <= 0.55)
Qualifies(intersects) == \E h \in intersects : h <= GROUND_THRESHOLD

\* the loop of checkGrounded: grounded after all rays
ProbeGrounded(hits) ==
    \E i \in 1..Len(offsets) : Qualifies(Intersects(hits, offsets[i]))

RaysCast == {offsets[i] : i \in 1..Len(offsets)}

Range(f) == {f[i] : i \in DOMAIN f}

\* "Clear old rays": raysRef.current.forEach((line) => scene.remove(line))
ClearOldRays(lines, old) == lines \ Range(old)

\* new THREE.Line(...): n fresh objects, named by the smallest identities no
\* line of the scene bears
RECURSIVE NewLines(_, _, _)
NewLines(used, n, id) ==
    IF n = 0 THEN << >>
    ELSE IF id \in used THEN NewLines(used, n, id + 1)
    ELSE <<id>> \o NewLines(used, n - 1, id + 1)

\* scene.children and their descendants: what the JSX of App, Ground, Cube
\* and Player puts into the scene (debug lines are counted apart)
SceneChildren ==
    {"ambientLight", "Cube", "Player", "Ground", "gridHelper", "axesHelper"}

\* raycaster.intersectObjects(scene.children, true) for ray i of a probe:
\* every object of the scene, and every debug line that is in the scene
\* when the ray is cast (scene.add(line) of the earlier rays has run)
RayTargets(kept, lines, i) ==
    [objects |-> SceneChildren,
     lines |-> kept \cup {lines[j] : j \in 1..(i - 1)}]

(***************************************************************************)
(* Player: per-frame velocity command                                      *)
(***************************************************************************)
speed == 20
airControl == 2              \* 0.2, in tenths
jumpStrength == 20
gravity == -20

Up == [x |-> 0, y |-> 1, z |-> 0]

\* forward: camera direction projected on the horizontal plane, normalised
Forward(fwd) == Normalize([fwd EXCEPT !.y = 0])

\* right = forward x up, normalised
Right(fwd) == Normalize(Cross(Forward(fwd), Up))

\* moveDir: sum of the held keys' contributions, normalised
MoveDir(table, fwd) ==
    LET m0 == Zero
        m1 == IF Held(table, "w") THEN Add(m0, Forward(fwd)) ELSE m0
        m2 == IF Held(table, "s") THEN Sub(m1, Forward(fwd)) ELSE m1
        m3 == IF Held(table, "d") THEN Add(m2, Right(fwd)) ELSE m2
        m4 == IF Held(table, "a") THEN Sub(m3, Right(fwd)) ELSE m3
    IN Normalize(m4)

\* a grounded branch that blends toward the target instead of setting it
GroundedCommandBlended(moveDir, jump) ==
    [x |-> (moveDir.x * speed) \div 2,
     y |-> IF jump THEN jumpStrength * 1000 ELSE 0,
     z |-> (moveDir.z * speed) \div 2,
     nan |-> moveDir.nan]

\* if (isGrounded) { ... }
GroundedCommand(moveDir, jump) ==
    [x |-> moveDir.x * speed,
     y |-> IF jump THEN jumpStrength * 1000 ELSE 0,
     z |-> moveDir.z * speed,
     nan |-> moveDir.nan]

\* airControl * delta * 10, in thousandths
BlendFactor(delta) == (airControl * delta * 10) \div 10

\* an airborne branch that lets the jump key act
AirborneCommandJumping(v, moveDir, delta) ==
    [x |-> Lerp(v.x, moveDir.x * speed, BlendFactor(delta)),
     y |-> IF Held(keys, " ") THEN jumpStrength * 1000
           ELSE v.y + gravity * delta,
     z |-> Lerp(v.z, moveDir.z * speed, BlendFactor(delta)),
     nan |-> v.nan \/ moveDir.nan]

\* else { ... }
AirborneCommand(v, moveDir, delta) ==
    [x |-> Lerp(v.x, moveDir.x * speed, BlendFactor(delta)),
     y |-> v.y + gravity * delta,
     z |-> Lerp(v.z, moveDir.z * speed, BlendFactor(delta)),
     nan |-> v.nan \/ moveDir.nan]

\* the value of isGrounded that selects the branch of this frame
BranchGrounded(rendered, probed) == rendered

VelocityCommand(grounded, v, table, fwd, delta) ==
    IF grounded
    THEN GroundedCommand(MoveDir(table, fwd), Held(table, " "))
    ELSE AirborneCommand(v, MoveDir(table, fwd), delta)

HeldKeys(table) == {k \in {"w", "s", "a", "d", " "} : Held(table, k)}

\* useFrame((_, delta) => { checkGrounded(); ...; api.velocity.set(vx, vy, vz) })
PlayerFrame(delta, fwd, hits) ==
    LET probed == ProbeGrounded(hits)
        branch == BranchGrounded(isGrounded, probed)
        kept == ClearOldRays(sceneLines, raysRef)
        lines == NewLines(kept, Len(offsets), 1)
    IN
    /\ raysRef' = lines
    /\ sceneLines' = kept \cup Range(lines)
    /\ groundedUpdate' = [pending |-> TRUE, value |-> probed]
    /\ cmd' = VelocityCommand(branch, velocity, keys, fwd, delta)
    /\ last' = [ran |-> TRUE, delta |-> delta, fwd |-> fwd, hits |-> hits,
                cast |-> RaysCast, probe |-> probed,
                targets |-> [i \in 1..Len(offsets) |-> RayTargets(kept, lines, i)],
                branch |-> IF branch THEN "grounded" ELSE "airborne",
                vel |-> velocity, held |-> HeldKeys(keys),
                moveDir |-> MoveDir(keys, fwd),
                rearmed |-> last.ran /\ last.branch = "grounded"
                            /\ " " \in last.held]
    /\ UNCHANGED <<isGrounded, velocity>>

\* One rendering frame.  The frame also ends the burst of input events.
Frame(delta, fwd, hits) ==
    /\ Listening("useFrame.Player")
    /\ PlayerFrame(delta, fwd, hits)
    /\ snap' = [yaw |-> yaw, pitch |-> pitch, distance |-> distance]
    /\ burst' = [len |-> 0, kind |-> "none", events |-> << >>]
    /\ UNCHANGED <<cameraVars, lockVars, keyVars, lifeVars, orbitVars>>

\* React renders Player again: the queued setIsGrounded value becomes the
\* isGrounded the frame callback closes over.
Render ==
    /\ mounted
    /\ groundedUpdate.pending
    /\ isGrounded' = groundedUpdate.value
    /\ groundedUpdate' = [pending |-> FALSE, value |-> groundedUpdate.value]
    /\ UNCHANGED <<cameraVars, lockVars, keyVars, velocity, cmd, raysRef,
                   sceneLines, last, snap, burst, lifeVars, orbitVars>>

\* api.velocity.subscribe((v) => (velocity.current = v))
VelocityReport(v) ==
    /\ Listening("api.velocity")
    /\ velocity' = v
    /\ UNCHANGED <<cameraVars, lockVars, keyVars, isGrounded, groundedUpdate, cmd,
                   raysRef, sceneLines, last, snap, burst, lifeVars, orbitVars>>

(***************************************************************************)
(* CameraController: per-frame camera update                               *)
(***************************************************************************)
\* the target prop: absent (undefined), or an array of coordinates
NoTarget == [given |-> FALSE, coords |-> << >>]
EmptyTarget == [given |-> TRUE, coords |-> << >>]
\* useState([0, 20, 0]) of App
InitialTarget == [given |-> TRUE, coords |-> <<0, 20000, 0>>]
\* <Canvas camera={{ position: [0, 5, 10] }}>
InitialCameraPosition == Vec(0, 5000, 10000)

\* target && target.length
HasTargetIfGiven(t) == t.given

HasTarget(t) == t.given /\ Len(t.coords) # 0

\* Math.sin and Math.cos on angles in 0.0001 rad, results in 0.0001:
\* the angle is brought into [-PI, PI], folded into [-PI/2, PI/2], and the
\* sine series is summed up to the ninth power
RECURSIVE Wrap(_)
Wrap(a) ==
    IF a > PI THEN Wrap(a - 2 * PI)
    ELSE IF a < -PI THEN Wrap(a + 2 * PI)
    ELSE a

Fold(a) ==
    IF a > PI \div 2 THEN PI - a
    ELSE IF a < -(PI \div 2) THEN -PI - a
    ELSE a

SinSeries(x) ==
    LET x2 == (x * x) \div 10000
        a == 10000 - x2 \div 72
        b == 10000 - ((x2 * a) \div 10000) \div 42
        c == 10000 - ((x2 * b) \div 10000) \div 20
        d == 10000 - ((x2 * c) \div 10000) \div 6
    IN DivT(x * d, 10000)

Sin(a) == SinSeries(Fold(Wrap(a)))

Cos(a) == Sin(a + PI \div 2)

\* target[i]; a coordinate the array does not have is undefined
Coord(t, i) == IF i \in DOMAIN t.coords THEN t.coords[i] ELSE 0

\* new THREE.Vector3(x, y, z) of the frame callback: the point on the sphere
\* around the target given by yaw, pitch and distance
Ideal(t, y, p, d) ==
    LET r == DivT(d * Sin(p), 10000) IN
    [x |-> Coord(t, 1) + DivT(r * Sin(y), 10000),
     y |-> Coord(t, 2) + DivT(d * Cos(p), 10000),
     z |-> Coord(t, 3) + DivT(r * Cos(y), 10000),
     nan |-> Len(t.coords) < 3]

\* division rounding to the nearest integer
RoundDiv(n, d) ==
    IF n >= 0 THEN (2 * n + d) \div (2 * d) ELSE -((2 * (-n) + d) \div (2 * d))

\* a lerp that goes all the way
LerpVecSnap(v, g, alpha) == [g EXCEPT !.nan = v.nan \/ g.nan]

\* Vector3.lerp(g, alpha): this += (g - this) * alpha, alpha in tenths
LerpVec(v, g, alpha) ==
    [x |-> v.x + RoundDiv((g.x - v.x) * alpha, 10),
     y |-> v.y + RoundDiv((g.y - v.y) * alpha, 10),
     z |-> v.z + RoundDiv((g.z - v.z) * alpha, 10),
     nan |-> v.nan \/ g.nan]

\* camera.lookAt(new THREE.Vector3(...target)): the camera faces the target
LookAt(pos, t) ==
    [x |-> Coord(t, 1) - pos.x, y |-> Coord(t, 2) - pos.y,
     z |-> Coord(t, 3) - pos.z, nan |-> pos.nan \/ Len(t.coords) < 3]

\* useFrame(() => { if (!target || !target.length) return; ... })
CameraFrame ==
    /\ Listening("useFrame.CameraController")
    /\ IF ~HasTarget(target)
       THEN UNCHANGED <<camPos, camLook>>
       ELSE \E goal \in {Ideal(target, yaw, pitch, distance)} :
            \E pos \in {LerpVec(camPos, goal, LERP_FACTOR)} :
               /\ camPos' = pos
               /\ camLook' = LookAt(pos, target)
    /\ camLast' = [camLast EXCEPT !.ran = TRUE, !.tick = 1 - @,
                                  !.target = target, !.pos = camPos]
    /\ UNCHANGED <<target, cameraVars, lockVars, keyVars, playerVars, snap,
                   burst, lifeVars>>

\* CameraController is rendered with another target prop
SetTarget(t) ==
    /\ mounted
    /\ camLast.changes < MaxTargetChanges
    /\ t # target
    /\ target' = t
    /\ camLast' = [camLast EXCEPT !.changes = @ + 1]
    /\ UNCHANGED <<camPos, camLook, cameraVars, lockVars, keyVars, playerVars,
                   snap, burst, lifeVars>>

\* React unmounts the components: the cleanup functions of the two effects
\* run and the useFrame callbacks are dropped.  Nothing removes the
\* window key listeners, and nothing takes the debug lines out of the scene.
Unmount ==
    /\ mounted
    /\ mounted' = FALSE
    /\ listeners' = listeners \ Removed
    /\ UNCHANGED <<cameraVars, lockVars, keyVars, playerVars, snap, burst,
                   orbitVars>>

(***************************************************************************)
(* Initial state                                                           *)
(***************************************************************************)
NoHits == [p \in SamplePoints |-> {}]

Init ==
    /\ yaw = INITIAL_YAW
    /\ pitch = INITIAL_PITCH
    /\ distance = INITIAL_DISTANCE
    /\ pointerLockElement = "null"
    /\ lockQueue = << >>
    /\ lastPress = [any |-> FALSE, button |-> 0, onCanvas |-> FALSE,
                    locked |-> "null", requests |-> << >>]
    /\ keys = [k \in {} |-> TRUE]
    /\ keyLog = [k \in {} |-> "down"]
    /\ keyCase = [k \in {} |-> [name |-> "", mixed |-> FALSE]]
    /\ isGrounded = FALSE
    /\ groundedUpdate = [pending |-> FALSE, value |-> FALSE]
    /\ velocity = Zero
    /\ cmd = Zero
    /\ raysRef = << >>
    /\ sceneLines = {}
    /\ last = [ran |-> FALSE, delta |-> 0, fwd |-> Zero, hits |-> NoHits,
               cast |-> {}, probe |-> FALSE, targets |-> << >>,
               branch |-> "airborne",
               vel |-> Zero, held |-> {}, moveDir |-> Zero, rearmed |-> FALSE]
    /\ snap = [yaw |-> INITIAL_YAW, pitch |-> INITIAL_PITCH,
               distance |-> INITIAL_DISTANCE]
    /\ burst = [len |-> 0, kind |-> "none", events |-> << >>]
    /\ target = InitialTarget
    /\ camPos = InitialCameraPosition
    /\ camLook = Sub(Zero, InitialCameraPosition)
    /\ camLast = [ran |-> FALSE, tick |-> 0, target |-> InitialTarget,
                  pos |-> InitialCameraPosition, changes |-> 0]
    /\ mounted = TRUE
    /\ listeners = CameraListeners \cup PlayerSubscriptions
                     \cup FrameCallbacks \cup KeyListeners

(***************************************************************************)
(* Specifications                                                          *)
(***************************************************************************)
\* camera directions (camera.getWorldDirection), unit vectors
LookAhead == Vec(0, -600, -800)
LookDown == Vec(0, -1000, 0)
LookAside == Vec(-424, -800, -424)
CameraDirs == {LookAside, LookDown}

Deltas == {16, 100}

\* intersections of one ray
HitSets == {{}, {55}, {56, 100}}
AllHits == [SamplePoints -> HitSets]
OnGround == [p \in SamplePoints |-> {50}]
Scenes == {NoHits, OnGround}

VelVals == {Zero, Vec(3000, 20000, -4000)}
PlayerKeys == {"w", "s", " "}

PointerEvents ==
    \/ \E b \in Buttons, c \in BOOLEAN : MouseDown(b, c)
    \/ PointerLockResolve
    \/ PointerLockEscape

\* the ground probe over every combination of per-ray results
NextProbe ==
    \/ \E hits \in AllHits : Frame(16, LookAhead, hits)
    \/ Render

SpecProbe == Init /\ [][NextProbe]_vars

\* mouse look under pointer capture
NextLook ==
    \/ PointerEvents
    \/ \E e \in MouseMoves : MouseMove(e)
    \/ Frame(16, LookAhead, NoHits)
    \/ Render

SpecLook == Init /\ [][NextLook]_vars

\* zoom
NextZoom ==
    \/ \E d \in ZoomDeltas : Wheel(d)
    \/ Frame(16, LookAhead, NoHits)
    \/ Render

SpecZoom == Init /\ [][NextZoom]_vars

\* bursts of input events between frames
NextInput ==
    \/ MouseDown(0, TRUE)
    \/ PointerLockResolve
    \/ \E e \in MouseMoves : MouseMove(e)
    \/ \E d \in WheelDeltas : Wheel(d)
    \/ \E k \in {"w", "W"} : KeyDown(k) \/ KeyUp(k)
    \/ Frame(16, LookAhead, NoHits)

SpecInput == Init /\ [][NextInput]_vars

\* the velocity command
NextPlayer ==
    \/ \E k \in PlayerKeys : KeyDown(k) \/ KeyUp(k)
    \/ \E delta \in Deltas, fwd \in CameraDirs, hits \in Scenes :
          Frame(delta, fwd, hits)
    \/ Render
    \/ \E v \in VelVals : VelocityReport(v)

SpecPlayer == Init /\ [][NextPlayer]_vars

\* mounting and unmounting
NextLifecycle ==
    \/ Unmount
    \/ MouseDown(0, TRUE)
    \/ PointerLockResolve
    \/ MouseMove([dx |-> 200, dy |-> 200])
    \/ Wheel(8000)
    \/ KeyDown("w")
    \/ KeyUp("w")
    \/ Frame(16, LookAhead, OnGround)
    \/ Render
    \/ VelocityReport(Vec(3000, 20000, -4000))

SpecLifecycle == Init /\ [][NextLifecycle]_vars

\* the orbit camera following its target
MovedTarget == [given |-> TRUE, coords |-> <<20, 20000, 0>>]
Targets == {NoTarget, EmptyTarget, InitialTarget, MovedTarget}

NextOrbit ==
    \/ CameraFrame
    \/ \E t \in Targets : SetTarget(t)

SpecOrbit == Init /\ [][NextOrbit]_vars

\* the camera closing in on a target at rest, with some zooming
NextFollow ==
    \/ CameraFrame
    \/ Wheel(4)

\* the frame loop keeps calling the frame callbacks
SpecFollow == Init /\ [][NextFollow]_vars /\ WF_vars(CameraFrame)

\* frames of any length while the character is in the air
FrameTimes == {0, 16, 250, 600}

NextAir ==
    \/ \E k \in {"w", "d"} : KeyDown(k) \/ KeyUp(k)
    \/ \E delta \in FrameTimes : Frame(delta, LookAhead, NoHits)
    \/ Render
    \/ \E v \in VelVals : VelocityReport(v)

SpecAir == Init /\ [][NextAir]_vars

\* key events under names of either letter case
KeyNames == {"w", "W", "a", "A"}

NextKeys ==
    \/ \E k \in KeyNames : KeyDown(k) \/ KeyUp(k)
    \/ Frame(16, LookAside, NoHits)
    \/ Render

SpecKeys == Init /\ [][NextKeys]_vars

Next ==
    NextKeys \/ NextAir \/ NextOrbit \/ NextFollow \/ NextLook \/ NextZoom \/ NextInput \/ NextPlayer \/ NextProbe
    \/ NextLifecycle

Spec == Init /\ [][Next]_vars

(***************************************************************************)
(* Ground probe: C1, C2, C3 (under SpecProbe)                              *)
(***************************************************************************)
\* C1: in every frame the branch that computes the velocity command is the
\* result of the ground probe run in that same frame.
C1_BranchIsThisFramesProbe ==
    last.ran => (last.branch = IF last.probe THEN "grounded" ELSE "airborne")

\* C2: the probe casts five rays, from the footprint center and its four
\* corners, and the character is grounded if at least one of the five
\* qualifies; a surface under the center alone makes it grounded.
C2_FiveRaysWithCenter ==
    last.ran =>
        /\ last.cast = SamplePoints
        /\ last.probe = (\E p \in SamplePoints : \E h \in last.hits[p] : h <= 55)

\* C3: the probe reports grounded if and only if at least one cast ray has
\* an intersection at distance <= 0.55; otherwise it reports airborne.
C3_GroundedIffSomeCastRayWithinThreshold ==
    last.ran =>
        /\ groundedUpdate.value =
             (\E p \in last.cast : \E h \in last.hits[p] : h <= 55)
        /\ last.probe = groundedUpdate.value

\* exactly one cast ray qualifies, at the threshold itself, and the other
\* rays hit only farther geometry
C3_Witness ==
    /\ last.ran
    /\ groundedUpdate.value
    /\ Cardinality({p \in last.cast : 55 \in last.hits[p]}) = 1
    /\ \A p \in last.cast : last.hits[p] \in {{55}, {56, 100}}

(***************************************************************************)
(* Camera input: C4, C6 (under SpecLook), C5 (under SpecZoom),             *)
(* C7 (under SpecInput)                                                    *)
(***************************************************************************)
LastEvent == burst.events[burst.len]

\* a step in which one more input event has been received
Arrives(kind) ==
    /\ burst'.len = burst.len + 1
    /\ burst'.events[burst'.len].kind = kind

C5_DistanceWithinClamp ==
    /\ [](MIN_DISTANCE <= distance /\ distance <= MAX_DISTANCE)
    /\ [][Arrives("wheel") =>
            LET moved == distance + 5 * burst'.events[burst'.len].deltaY IN
            distance' = IF moved > 50000 THEN 50000
                        ELSE IF moved < 2000 THEN 2000 ELSE moved]_vars

\* a wheel delta of +100 has raised the distance by 0.5
C5_Witness ==
    /\ burst.len = 1
    /\ LastEvent.kind = "wheel"
    /\ LastEvent.deltaY = 100
    /\ distance = snap.distance + 500

\* C6: a mouse-move event that arrives while pointer capture is not engaged
\* leaves yaw and pitch unchanged; they change only on mouse-move events
\* received while capture is engaged.
C6_MouseLookOnlyWhileCaptured ==
    [][/\ (Arrives("mousemove") /\ pointerLockElement # "canvas")
            => (yaw' = yaw /\ pitch' = pitch)
       /\ (yaw' # yaw \/ pitch' # pitch)
            => (Arrives("mousemove") /\ pointerLockElement = "canvas")]_vars

\* a mouse move arrived without capture and changed nothing, after an
\* earlier captured one had turned the camera
C6_Witness ==
    /\ burst.len = 2
    /\ burst.events[1].kind = "mousemove"
    /\ burst.events[1].locked = "canvas"
    /\ burst.events[2].kind = "mousemove"
    /\ burst.events[2].locked = "null"
    /\ yaw = snap.yaw - burst.events[1].dx * 20
    /\ yaw # snap.yaw

\* what one event alone makes of a camera state <<yaw, pitch, distance>>
Applied(c, e) ==
    IF e.kind = "wheel"
    THEN LET moved == c[3] + 5 * e.deltaY IN
         <<c[1], c[2],
           IF moved > 50000 THEN 50000 ELSE IF moved < 2000 THEN 2000 ELSE moved>>
    ELSE IF e.locked # "canvas" THEN c
    ELSE LET turned == c[2] - 20 * e.dy IN
         <<c[1] - 20 * e.dx,
           IF turned > 14708 THEN 14708 ELSE IF turned < 1000 THEN 1000 ELSE turned,
           c[3]>>

RECURSIVE AppliedAll(_, _)
AppliedAll(c, events) ==
    IF events = << >> THEN c
    ELSE AppliedAll(Applied(c, Head(events)), Tail(events))

AtLastFrame == <<snap.yaw, snap.pitch, snap.distance>>

\* C7 as claimed: after a burst of events of one kind, the state the next
\* frame reads is what the last event of the burst alone would have produced.
C7_LatestValue ==
    (burst.len > 0 /\ burst.kind \in {"mousemove", "wheel"})
        => <<yaw, pitch, distance>> = Applied(AtLastFrame, LastEvent)

\* C7 as amended: key writes are latest-value per key identifier (a key is
\* held exactly when the most recent event for it was a key-down); mouse-move
\* and wheel writes accumulate: the state the next frame reads is the result
\* of applying every event of the burst, in order of arrival.
C7_KeysLatestCameraCumulative ==
    /\ <<yaw, pitch, distance>> = AppliedAll(AtLastFrame, burst.events)
    /\ DOMAIN keys = DOMAIN keyLog
    /\ \A k \in DOMAIN keys : keys[k] = (keyLog[k] = "down")

\* a burst of two wheel events whose sum differs from the last one alone,
\* with a key pressed and released in both letter cases
C7_Witness ==
    /\ burst.len = 2
    /\ burst.kind = "wheel"
    /\ <<yaw, pitch, distance>> # Applied(AtLastFrame, LastEvent)
    /\ "w" \in DOMAIN keys
    /\ ~keys["w"]

(***************************************************************************)
(* Velocity command: C8, C9, C10 (under SpecPlayer)                        *)
(***************************************************************************)
JumpHeld == " " \in last.held

\* C8: in every frame taking the grounded branch, the commanded horizontal
\* velocity is exactly moveDir * moveSpeed, whatever the previous velocity,
\* and the commanded vertical velocity is jumpStrength if the jump key is
\* held in that frame and 0 otherwise, in every frame of a run of them.
C8_GroundedCommandIsDirect ==
    (last.ran /\ last.branch = "grounded") =>
        /\ cmd.x = last.moveDir.x * 20
        /\ cmd.z = last.moveDir.z * 20
        /\ cmd.y = IF JumpHeld THEN 20000 ELSE 0

\* a second grounded frame in a row with the jump key held, moving, while
\* the body already has a velocity
C8_Witness ==
    /\ last.ran
    /\ last.branch = "grounded"
    /\ last.rearmed
    /\ JumpHeld
    /\ last.vel # Zero
    /\ last.moveDir # Zero
    /\ cmd.y = 20000

\* the held movement keys cancel out
KeysCancel ==
    /\ ("w" \in last.held) = ("s" \in last.held)
    /\ ("d" \in last.held) = ("a" \in last.held)

\* C9: whenever the held movement keys sum to a zero direction, the movement
\* direction is the zero vector and the grounded velocity command is exactly
\* (0, jumpStrength-or-0, 0); no NaN is ever written to the physics body.
C9_ZeroDirectionIsZero ==
    /\ ~cmd.nan
    /\ (last.ran /\ KeysCancel) =>
          /\ last.moveDir = Zero
          /\ last.branch = "grounded" =>
                cmd = Vec(0, IF JumpHeld THEN 20000 ELSE 0, 0)

\* a grounded frame with forward and back both held, and the jump key
C9_Witness ==
    /\ last.ran
    /\ last.branch = "grounded"
    /\ {"w", "s", " "} \subseteq last.held
    /\ cmd = Vec(0, 20000, 0)

\* C10: in every frame taking the airborne branch with elapsed time delta,
\* the commanded vertical velocity is the body's mirrored vertical velocity
\* plus gravity * delta (gravity = -20); the jump key has no effect on it.
C10_AirborneGravity ==
    (last.ran /\ last.branch = "airborne") =>
        cmd.y = last.vel.y + (-20) * last.delta

\* an airborne frame of 0.1 s with the jump key held: lowered by exactly 2.0
C10_Witness ==
    /\ last.ran
    /\ last.branch = "airborne"
    /\ last.delta = 100
    /\ JumpHeld
    /\ last.vel.y = 20000
    /\ cmd.y = 18000

(***************************************************************************)
(* Unmounting: C11, C12 (under SpecLifecycle)                              *)
(***************************************************************************)
\* C11: once the components are unmounted no listener is left in place:
\* no pointer listener on the canvas or the document, no key-down or key-up
\* listener, no physics subscription and no frame callback.
C11_NoListenerAfterUnmount == ~mounted => listeners = {}

\* C12: debug lines never accumulate: the scene holds only the lines of the
\* most recent ground probe, at most one per ray of the probe, and once the
\* components are unmounted none of the debug lines is left in the scene.
C12_DebugLinesNeverOutlive ==
    /\ sceneLines = Range(raysRef)
    /\ Cardinality(sceneLines) <= Len(offsets)
    /\ (~mounted => sceneLines = {})

(***************************************************************************)
(* Repeating a frame: C13 (under SpecProbe)                                *)
(***************************************************************************)
\* C13: the frame update called twice in a row with the same held keys, the
\* same mirrored velocity, the same ray hits, the same camera direction and
\* the same elapsed time issues the same velocity command both times.
C13_SameInputsSameCommand ==
    [][(/\ last.ran /\ last'.ran
        /\ last'.held = last.held
        /\ last'.vel = last.vel
        /\ last'.hits = last.hits
        /\ last'.fwd = last.fwd
        /\ last'.delta = last.delta)
       => cmd' = cmd]_vars

(***************************************************************************)
(* What a ground-probe ray is tested against: C14, C15 (under SpecProbe)   *)
(***************************************************************************)
\* C14: no ray of a ground probe is tested against the character's own mesh.
C14_OwnMeshNeverTarget ==
    last.ran =>
        \A i \in 1..Len(last.targets) : "Player" \notin last.targets[i].objects

\* C15: debug lines do not influence control: no debug line is among the
\* objects a ray is tested against, neither a line of an earlier ray of the
\* same probe nor a line of an earlier probe.
C15_DebugLineNeverTarget ==
    last.ran =>
        \A i \in 1..Len(last.targets) : last.targets[i].lines = {}

(***************************************************************************)
(* Orbit camera: C16 (under SpecOrbit), C17 (under SpecFollow)             *)
(***************************************************************************)
\* C16: a camera update that finds no target (the prop is absent or empty)
\* changes nothing: camera position and orientation stay as they were, and
\* so do yaw, pitch and distance.
C16_NoTargetNoUpdate ==
    [][(/\ camLast'.tick # camLast.tick
        /\ (~target.given \/ Len(target.coords) = 0))
       => /\ camPos' = camPos
          /\ camLook' = camLook
          /\ yaw' = yaw /\ pitch' = pitch /\ distance' = distance]_vars

\* the camera had moved, the target became an empty array, an update ran
C16_Witness ==
    /\ camLast.ran
    /\ camLast.target = EmptyTarget
    /\ camPos # InitialCameraPosition
    /\ camPos = camLast.pos

\* the ideal position: the point on the sphere around the target
Goal == Ideal(target, yaw, pitch, distance)

\* squared distance of two points
Dist2(a, b) ==
    (a.x - b.x) * (a.x - b.x) + (a.y - b.y) * (a.y - b.y)
    + (a.z - b.z) * (a.z - b.z)

\* a step that is a camera update with a target of three coordinates
CameraUpdate ==
    /\ camLast'.tick # camLast.tick
    /\ target.given /\ Len(target.coords) = 3

\* C17 as stated: with a fixed target and no input, EVERY camera update
\* strictly decreases the distance between the camera and the ideal position.
C17_EveryUpdateStrictlyCloser ==
    [][CameraUpdate => Dist2(camPos', Goal) < Dist2(camPos, Goal)]_vars

\* the smallest offset of a coordinate that an update is sure to reduce
Resolution == 5

Near ==
    /\ Abs(Goal.x - camPos.x) < Resolution
    /\ Abs(Goal.y - camPos.y) < Resolution
    /\ Abs(Goal.z - camPos.z) < Resolution

\* C17, amended: every camera update moves each coordinate by a tenth
\* (LERP_FACTOR) of its remaining offset, rounded to the resolution of the
\* arithmetic; it never moves the camera away from the ideal position and
\* never past it; it strictly decreases the distance as long as some
\* coordinate is at least Resolution away; and once yaw, pitch, distance and
\* target stay as they are, the camera comes and stays within Resolution of
\* the ideal position in every coordinate.
C17_CloserUntilWithinResolution ==
    /\ [][CameraUpdate =>
            /\ Abs(10 * (camPos'.x - camPos.x) - (Goal.x - camPos.x)) <= 5
            /\ Abs(10 * (camPos'.y - camPos.y) - (Goal.y - camPos.y)) <= 5
            /\ Abs(10 * (camPos'.z - camPos.z) - (Goal.z - camPos.z)) <= 5
            /\ (Goal.x - camPos'.x) * (Goal.x - camPos.x) >= 0
            /\ (Goal.y - camPos'.y) * (Goal.y - camPos.y) >= 0
            /\ (Goal.z - camPos'.z) * (Goal.z - camPos.z) >= 0
            /\ Dist2(camPos', Goal) <= Dist2(camPos, Goal)
            /\ (~Near => Dist2(camPos', Goal) < Dist2(camPos, Goal))]_vars
    /\ \/ <>[]Near
       \/ []<><<yaw' # yaw \/ pitch' # pitch \/ distance' # distance
                \/ target' # target>>_vars

\* after zooming, the camera has come within Resolution of the ideal position
C17_Witness ==
    /\ camLast.ran
    /\ distance # INITIAL_DISTANCE
    /\ camPos # InitialCameraPosition
    /\ Near

(***************************************************************************)
(* Pointer capture by mouse buttons: C18 (under SpecLook)                  *)
(***************************************************************************)
\* C18: a primary-button press on the canvas requests capture; a
\* middle-button press while capture is engaged ends, once the browser has
\* resolved the requests of the press, with capture released; a middle-button
\* press while capture is not engaged requests capture and nothing else,
\* also when both the canvas handler and the document handler have run.
C18_ButtonsToggleCapture ==
    /\ (lastPress.any /\ lastPress.button = 0 /\ lastPress.onCanvas)
          => lastPress.requests = <<"lock">>
    /\ (lastPress.any /\ lastPress.button = 1 /\ lastPress.locked = "canvas")
          => /\ lastPress.requests # << >>
             /\ lastPress.requests[Len(lastPress.requests)] = "exit"
             /\ (lockQueue = << >> => pointerLockElement = "null")
    /\ (lastPress.any /\ lastPress.button = 1 /\ lastPress.locked = "null")
          => /\ lastPress.requests # << >>
             /\ \A i \in 1..Len(lastPress.requests) :
                   lastPress.requests[i] = "lock"

\* a middle press on the canvas while captured: both handlers ran, the
\* browser has resolved both requests, capture is released
C18_Witness ==
    /\ lastPress.any /\ lastPress.button = 1 /\ lastPress.onCanvas
    /\ lastPress.locked = "canvas"
    /\ lastPress.requests = <<"lock", "exit">>
    /\ lockQueue = << >>
    /\ pointerLockElement = "null"

(***************************************************************************)
(* Air control: C19 (under SpecAir)                                        *)
(***************************************************************************)
Between(v, a, b) == Min(a, b) <= v /\ v <= Max(a, b)

\* C19: in the airborne branch, for every elapsed time delta >= 0, each
\* commanded horizontal velocity component lies between the previous
\* component and the target moveDir * speed: the command never overshoots.
C19_AirborneNeverOvershoots ==
    (last.ran /\ last.branch = "airborne") =>
        /\ Between(cmd.x, last.vel.x, last.moveDir.x * 20)
        /\ Between(cmd.z, last.vel.z, last.moveDir.z * 20)

(***************************************************************************)
(* Held keys: C20 (under SpecKeys)                                         *)
(***************************************************************************)
\* the key identifiers of the key names in use
KeyIds == {"w", "a"}

\* C20: after any sequence of key-down and key-up events, a key identifier
\* (the key name without regard to letter case) is recorded as held if and
\* only if the most recent event for it was a key-down; window.keys has no
\* entry under another spelling of the name, so a key pressed in one letter
\* case and released in the other is not left held.
C20_HeldIffLastEventDown ==
    /\ \A id \in KeyIds :
          (id \in DOMAIN keys /\ keys[id])
             <=> (id \in DOMAIN keyLog /\ keyLog[id] = "down")
    /\ DOMAIN keys \subseteq KeyIds

\* "w" was pressed under one letter case and released under the other, and
\* is not held
C20_Witness ==
    /\ "w" \in DOMAIN keyCase
    /\ keyCase["w"].mixed
    /\ keyCase["w"].name = "W"
    /\ keyLog["w"] = "up"
    /\ ~keys["w"]

====
